---------------------------- MODULE Spec2Model ----------------------------
(***************************************************************************)
(* Model of txt_to_pandas_dataframe.py: the integrity check of a beam      *)
(* integrated-current table and the date-range queries over it.            *)
(*                                                                         *)
(* Numbers.  The table's charge columns are float64 in the program.  Here  *)
(* a charge is an integer count of units of 0.1 mAh, so that atol = 0.1 is *)
(* ATOL = 1, and every sum is exact.  Values produced by a reduction (sum, *)
(* mean) are exact fractions <<n, d>> in lowest terms, and NaN (the mean   *)
(* of an empty window) is the distinguished value <<0, 0>>.  Rounding of   *)
(* float64 additions is not modelled.                                      *)
(*                                                                         *)
(* Dates.  A date is its day number in 1991 (1 = 1 January 1991, a         *)
(* Tuesday), so day d falls on a Monday exactly when d % 7 = 0.            *)
(***************************************************************************)
EXTENDS Integers, Sequences, FiniteSets, TLC

VARIABLES data, pc, checked, call, result

vars == <<data, pc, checked, call, result>>

-----------------------------------------------------------------------------
(* Bounds of the model *)

\* Largest number of rows of a table handed to the integrity check alone.
MaxCheckRows == 2

\* Largest number of rows of a table that is queried.
MaxRows == 2

\* A large daily charge (10000 mAh), large enough for rtol to matter.
BigCharge == 100000

\* Julian day numbers drawn for the rows of a checked table.
JulianDays == {48376, 48377}

\* Dates drawn for the rows of a checked table: 30 April and 1 May 1991.
CheckDates == {120, 121}

\* Incremental charges and cumulative-column errors of a checked table.
CheckCharges == {0 - BigCharge, 0, BigCharge}
CheckErrors == {0, 2}

-----------------------------------------------------------------------------
(* The table *)

Targets == {"Sync", "TS-1", "TS-2"}

Abs(x) == IF x < 0 THEN 0 - x ELSE x

\* A row of the frame read by text_to_pandas_dataframe: the eight columns.
Row(jd, date, inc, cum) ==
    [jd |-> jd, Date |-> date, inc |-> inc, cum |-> cum]

Column(d, f) == [i \in 1..Len(d) |-> d[i][f]]
ChargeColumn(d, target) == [i \in 1..Len(d) |-> d[i].inc[target]]
CumulativeColumn(d, target) == [i \in 1..Len(d) |-> d[i].cum[target]]

\* Series.cumsum(): the left-to-right running sum.
RECURSIVE cumsum(_)
cumsum(s) ==
    IF Len(s) = 0 THEN << >>
    ELSE LET head == cumsum(SubSeq(s, 1, Len(s) - 1))
         IN  Append(head, (IF Len(head) = 0 THEN 0 ELSE head[Len(head)]) + s[Len(s)])

-----------------------------------------------------------------------------
(* data_integrity_check *)

\* atol = 0.1 mAh, in units of 0.1 mAh.
ATOL == 1

\* numpy.isclose's default rtol = 1e-05, as the denominator 1 / rtol.
RtolDen == 100000

\* numpy.isclose(a, b, atol): |a - b| <= atol + rtol * |b|.
isclose(a, b) == Abs(a - b) * RtolDen <= ATOL * RtolDen + Abs(b)

\* Series.is_monotonic_increasing: never decreasing.
is_monotonic_increasing(s) == \A i \in 1..(Len(s) - 1) : s[i] <= s[i + 1]

\* Series.duplicated().any()
any_duplicated(s) == \E i, j \in 1..Len(s) : i < j /\ s[i] = s[j]

\* Variant: with the two commented-out columns asserted as well.
sorted_checks_all == <<"jd", "Sync", "TS-1", "TS-2">>

\* The columns asserted never to decrease; the cumulative Sync and TS-1
\* columns are commented out of the list in the code.
sorted_checks == <<"jd", "TS-2">>

SortedColumn(d, name) ==
    IF name = "jd" THEN Column(d, "jd") ELSE CumulativeColumn(d, name)

cumulative_close(d, target) ==
    LET run == cumsum(ChargeColumn(d, target))
    IN  \A i \in 1..Len(d) : isclose(run[i], d[i].cum[target])

\* The outcome of data_integrity_check: "ok" when it returns, otherwise the
\* assertion that failed, in the order the code makes them.
data_integrity_check(d) ==
    IF \E k \in 1..Len(sorted_checks) :
           ~ is_monotonic_increasing(SortedColumn(d, sorted_checks[k]))
    THEN LET k == CHOOSE k \in 1..Len(sorted_checks) :
                    /\ ~ is_monotonic_increasing(SortedColumn(d, sorted_checks[k]))
                    /\ \A l \in 1..(k - 1) :
                          is_monotonic_increasing(SortedColumn(d, sorted_checks[l]))
         IN  sorted_checks[k] \o " is not sorted"
    ELSE IF \E t \in Targets : ~ cumulative_close(d, t) THEN "not close"
    ELSE IF any_duplicated(Column(d, "jd")) THEN "Duplicated dates found"
    ELSE "ok"

-----------------------------------------------------------------------------
(* Tables handed to the integrity check *)

ZeroCharges == [t \in Targets |-> 0]

\* The charge columns of one row: one channel carries a charge and an error
\* of its cumulative column, the other two carry none.
CheckRowShapes ==
    {[jd |-> jd, Date |-> date, inc |-> [ZeroCharges EXCEPT ![t] = v],
      err |-> [ZeroCharges EXCEPT ![t] = e]] :
        jd \in JulianDays, date \in CheckDates, t \in Targets,
        v \in CheckCharges, e \in CheckErrors}

\* The table whose cumulative columns are the running sums plus the errors.
TableOf(shapes) ==
    [i \in 1..Len(shapes) |->
        Row(shapes[i].jd, shapes[i].Date, shapes[i].inc,
            [t \in Targets |->
                cumsum([k \in 1..Len(shapes) |-> shapes[k].inc[t]])[i]
                    + shapes[i].err[t]])]

NoCall == [op |-> "none"]
NoResult == [kind |-> "none"]

InitCheck ==
    /\ \E n \in 1..MaxCheckRows :
          \E shapes \in [1..n -> CheckRowShapes] : data = TableOf(shapes)
    /\ pc = "loaded"
    /\ checked = "unchecked"
    /\ call = NoCall
    /\ result = NoResult

\* data_integrity_check(data), run once after the table is loaded.
DataIntegrityCheck ==
    /\ pc = "loaded"
    /\ checked' = data_integrity_check(data)
    /\ pc' = "ready"
    /\ UNCHANGED <<data, call, result>>

NextCheck == DataIntegrityCheck

SpecCheck == InitCheck /\ [][NextCheck]_vars

-----------------------------------------------------------------------------
(* Numbers produced by a reduction: exact fractions, and NaN *)

RECURSIVE GCD(_, _)
GCD(a, b) == IF b = 0 THEN a ELSE GCD(b, a % b)

NaN == <<0, 0>>

\* n / d in lowest terms, d > 0.
Frac(n, d) == LET g == GCD(Abs(n), d) IN <<n \div g, d \div g>>

Float(v) == <<v, 1>>

FAdd(x, y) ==
    IF x = NaN \/ y = NaN THEN NaN
    ELSE Frac(x[1] * y[2] + y[1] * x[2], x[2] * y[2])

\* x * num / den
FScale(x, num, den) ==
    IF x = NaN THEN NaN ELSE Frac(x[1] * num, x[2] * den)

\* x > 0, false for NaN as for every comparison with NaN
FPositive(x) == x # NaN /\ x[1] > 0

-----------------------------------------------------------------------------
(* The calendar of resample("W") and resample("M") *)

\* The last day of each month of 1991, as day numbers.
MonthEnds == <<31, 59, 90, 120, 151, 181, 212, 243, 273, 304, 334, 365>>

MonthOf(d) ==
    CHOOSE m \in 1..12 : d <= MonthEnds[m] /\ (m = 1 \/ d > MonthEnds[m - 1])

\* "W" is W-SUN: the window Monday..Sunday, labelled by its Sunday.
\* "M" is month end: the calendar month, labelled by its last day.
Label(frequency, d) ==
    IF frequency = "Weekly" THEN 7 * (d \div 7) + 6 ELSE MonthEnds[MonthOf(d)]

NextLabel(frequency, label) ==
    IF frequency = "Weekly" THEN label + 7 ELSE MonthEnds[MonthOf(label) + 1]

\* Variant: the bin labelled `last` left out.
RECURSIVE bins_upto_last_excluded(_, _, _)
bins_upto_last_excluded(frequency, label, last) ==
    IF label >= last THEN << >>
    ELSE <<label>> \o bins_upto_last_excluded(frequency, NextLabel(frequency, label), last)

\* The labels of the bins from the one labelled `label` through the one
\* labelled `last`.
RECURSIVE bins_upto(_, _, _)
bins_upto(frequency, label, last) ==
    IF label > last THEN << >>
    ELSE <<label>> \o bins_upto(frequency, NextLabel(frequency, label), last)

\* Variant: the frame taken to be sorted by date already.
key_range_unsorted(frame) == <<frame[1].Date, frame[Len(frame)].Date>>

\* resample sorts the frame by its key when the key is not sorted already,
\* and bins from the first key to the last: the earliest and latest date.
key_range(frame) ==
    LET dates == {frame[i].Date : i \in 1..Len(frame)}
    IN  <<CHOOSE x \in dates : \A y \in dates : x <= y,
          CHOOSE x \in dates : \A y \in dates : y <= x>>

\* Variant: only the bins a row falls in.
kept_bins_occupied(labels, occupied) == SelectSeq(labels, LAMBDA l : l \in occupied)

\* The bins of the result: every bin, whether or not a row falls in it.
kept_bins(labels, occupied) == labels

-----------------------------------------------------------------------------
(* get_sliced_data *)

RECURSIVE SumOver(_, _)
SumOver(S, f) ==
    IF S = {} THEN 0
    ELSE LET i == CHOOSE i \in S : TRUE IN f[i] + SumOver(S \ {i}, f)

\* .sum(numeric_only=True) and .mean(numeric_only=True) of the rows of one
\* window: the sum of no rows is 0, the mean of no rows is NaN.
reduce(rows, f, is_averaged) ==
    LET n == Cardinality(rows)
        total == SumOver(rows, f)
    IN  IF is_averaged THEN (IF n = 0 THEN NaN ELSE Frac(total, n))
        ELSE Float(total)

\* frame.resample(rule, on="Date") followed by the reduction: one row per
\* bin, indexed by the bin's label, every numeric column reduced.
resample(frame, frequency, is_averaged) ==
    LET range == key_range(frame)
        labels ==
            kept_bins(bins_upto(frequency, Label(frequency, range[1]),
                                Label(frequency, range[2])),
                      {Label(frequency, frame[i].Date) : i \in 1..Len(frame)})
        members(k) ==
            {i \in 1..Len(frame) : Label(frequency, frame[i].Date) = labels[k]}
    IN  [k \in 1..Len(labels) |->
            Row(reduce(members(k), Column(frame, "jd"), is_averaged),
                labels[k],
                [t \in Targets |->
                    reduce(members(k), ChargeColumn(frame, t), is_averaged)],
                [t \in Targets |->
                    reduce(members(k), CumulativeColumn(frame, t), is_averaged)])]

\* Variant: data.iloc[:end_index + 1].
iloc_from_first_row(d, start_index, end_index) == SubSeq(d, 1, end_index + 1)

\* data.iloc[start_index:end_index + 1], with 0-based positions.
iloc(d, start_index, end_index) == SubSeq(d, start_index + 1, end_index + 1)

\* data.index[data["Date"] == date].values[0]: the first position, 0-based.
index_of(d, date) ==
    (CHOOSE i \in 1..Len(d) :
        d[i].Date = date /\ \A j \in 1..(i - 1) : d[j].Date # date) - 1

DatesOf(d) == {d[i].Date : i \in 1..Len(d)}

None == [kind |-> "None"]
Frame(rows, resampled) == [kind |-> "frame", resampled |-> resampled, rows |-> rows]

get_sliced_data(d, start_date, end_date, frequency, is_averaged) ==
    IF start_date \notin DatesOf(d) THEN None
    ELSE IF end_date \notin DatesOf(d) THEN None
    ELSE LET start_index == index_of(d, start_date)
             end_index == index_of(d, end_date)
         IN  IF end_index < start_index THEN None
             ELSE CASE frequency = "Daily" ->
                         Frame(iloc(d, start_index, end_index), FALSE)
                    [] frequency \in {"Weekly", "Monthly"} ->
                         Frame(resample(iloc(d, start_index, end_index),
                                        frequency, is_averaged), TRUE)
                    [] OTHER -> None

-----------------------------------------------------------------------------
(* get_integrated_current, is_beam_on, get_num_protons, get_average_power *)

valid_targets == Targets

\* A date argument that may be None: << >> is None, <<d>> is the date d.
NoDate == << >>

Scalar(x, exp10) == [kind |-> "scalar", value |-> x, exp10 |-> exp10]
Values(xs, exp10) == [kind |-> "values", values |-> xs, exp10 |-> exp10]
Bool(b) == [kind |-> "bool", value |-> b]
Raised(error) == [kind |-> "raised", error |-> error]

\* used_data[f"Milliamp-hours ({target})"].values
column_values(frame, target) ==
    [k \in 1..Len(frame.rows) |->
        IF frame.resampled THEN frame.rows[k].inc[target]
        ELSE Float(frame.rows[k].inc[target])]

\* Variant: numpy.nansum, which leaves NaN elements out.
RECURSIVE array_sum_nan_skipped(_)
array_sum_nan_skipped(xs) ==
    IF Len(xs) = 0 THEN Float(0)
    ELSE IF xs[Len(xs)] = NaN THEN array_sum_nan_skipped(SubSeq(xs, 1, Len(xs) - 1))
    ELSE FAdd(array_sum_nan_skipped(SubSeq(xs, 1, Len(xs) - 1)), xs[Len(xs)])

\* ndarray.sum(): NaN if any element is NaN.
RECURSIVE array_sum(_)
array_sum(xs) ==
    IF Len(xs) = 0 THEN Float(0)
    ELSE FAdd(array_sum(SubSeq(xs, 1, Len(xs) - 1)), xs[Len(xs)])

get_integrated_current(d, start_date, end_date, target, frequency, is_averaged, is_summed) ==
    IF target \notin valid_targets THEN None
    ELSE IF end_date = NoDate
    THEN IF start_date \notin DatesOf(d) THEN None
         ELSE Scalar(Float(d[index_of(d, start_date) + 1].inc[target]), 0)
    ELSE LET used_data ==
                 get_sliced_data(d, start_date, end_date[1], frequency, is_averaged)
         IN  IF used_data.kind # "None"
             THEN LET integrated_currents == column_values(used_data, target)
                  IN  IF is_summed THEN Scalar(array_sum(integrated_currents), 0)
                      ELSE Values(integrated_currents, 0)
             ELSE None

\* Variant: the comparison != 0.
is_beam_on_nonzero(d, date, target) ==
    LET current == get_integrated_current(d, date, NoDate, target, "Daily", FALSE, TRUE)
    IN  IF current.kind = "None" THEN Raised("TypeError")
        ELSE Bool(current.value # NaN /\ current.value[1] # 0)

\* get_integrated_current(...) > 0; None > 0 raises TypeError.
is_beam_on(d, date, target) ==
    LET current == get_integrated_current(d, date, NoDate, target, "Daily", FALSE, TRUE)
    IN  IF current.kind = "None" THEN Raised("TypeError")
        ELSE Bool(FPositive(current.value))

\* current * num / den * 10^exp10, elementwise on an array; None * x raises
\* TypeError.
scaled(current, num, den, exp10) ==
    CASE current.kind = "None" -> Raised("TypeError")
      [] current.kind = "scalar" -> Scalar(FScale(current.value, num, den), exp10)
      [] current.kind = "values" ->
            Values([k \in 1..Len(current.values) |->
                        FScale(current.values[k], num, den)], exp10)

SecondsPerDay == 86400

\* (current * 1e-3) / 1.6e-19 protons per mAh: 625 * 10^12 per unit of
\* 0.1 mAh.
get_num_protons(d, start_date, end_date, target, frequency, is_averaged, is_summed, per_second) ==
    LET integrated_current ==
            get_integrated_current(d, start_date, end_date, target, frequency,
                                   is_averaged, is_summed)
    IN  IF per_second THEN scaled(integrated_current, 625, SecondsPerDay, 12)
        ELSE scaled(integrated_current, 625, 1, 12)

\* The beam energy in MeV.
Voltage == 800

\* voltage * (1e6 * 1.6e-19) * (1e-3 / 86400) * current: with voltage = 800,
\* 16 * voltage / 86400 * 10^-18 W per unit of 0.1 mAh.
get_average_power(d, start_date, end_date, target, frequency, is_averaged, is_summed) ==
    scaled(get_integrated_current(d, start_date, end_date, target, frequency,
                                  is_averaged, is_summed),
           16 * Voltage, SecondsPerDay, 0 - 18)

-----------------------------------------------------------------------------
(* Tables that are queried, and the arguments of the queries *)

\* 30 April (Tuesday), 1 May (Wednesday of the same week) and 21 May 1991
\* (Tuesday, after two weeks without a row).
QueryDates == {120, 121, 141}

\* The three channels of a row: a day without beam, a day with beam, and a
\* correction row.
QueryCharges ==
    { ("Sync" :> 0) @@ ("TS-1" :> 0) @@ ("TS-2" :> 0),
      ("Sync" :> 5) @@ ("TS-1" :> 3) @@ ("TS-2" :> 2),
      ("Sync" :> 0 - 1) @@ ("TS-1" :> 0 - 1) @@ ("TS-2" :> 0) }

\* The modified Julian day number of a day of 1991.
MJD(d) == 48256 + d

QueryRowShapes ==
    {[jd |-> MJD(date), Date |-> date, inc |-> v, err |-> ZeroCharges] :
        date \in QueryDates, v \in QueryCharges}

Frequencies == {"Daily", "Weekly", "Monthly", "Yearly"}
TargetArgs == Targets \cup {"TS-3"}
EndDates == {NoDate} \cup {<<e>> : e \in QueryDates}

\* The arguments get_num_protons and get_average_power are called with.
DerivedTargets == {"TS-1", "TS-3"}
DerivedFrequencies == {"Daily", "Yearly"}

Call(op, start_date, end_date, target, frequency, is_averaged, is_summed, per_second) ==
    [op |-> op, start_date |-> start_date, end_date |-> end_date,
     target |-> target, frequency |-> frequency, is_averaged |-> is_averaged,
     is_summed |-> is_summed, per_second |-> per_second]

Init ==
    /\ \E n \in 1..MaxRows :
          \E shapes \in [1..n -> QueryRowShapes] : data = TableOf(shapes)
    /\ pc = "loaded"
    /\ checked = "unchecked"
    /\ call = NoCall
    /\ result = NoResult

\* The query functions read the table only: they do not look at whether
\* data_integrity_check has accepted it, so a caller can query any table
\* the check has been run on.
Returns(c, r) ==
    /\ call' = c
    /\ result' = r
    /\ pc' = "returned"
    /\ UNCHANGED <<data, checked>>

GetSlicedData ==
    /\ pc = "ready"
    /\ \E start_date, end_date \in QueryDates, frequency \in Frequencies,
          is_averaged \in BOOLEAN :
           Returns(Call("get_sliced_data", start_date, <<end_date>>, "TS-1",
                        frequency, is_averaged, FALSE, FALSE),
                   get_sliced_data(data, start_date, end_date, frequency, is_averaged))

\* A call without end_date is made with the default frequency and
\* reduction, which that path never reads.
GetIntegratedCurrent ==
    /\ pc = "ready"
    /\ \E start_date \in QueryDates, end_date \in EndDates, target \in TargetArgs,
          frequency \in Frequencies, is_averaged, is_summed \in BOOLEAN :
           /\ end_date = NoDate => (frequency = "Daily" /\ ~ is_averaged)
           /\ Returns(Call("get_integrated_current", start_date, end_date, target,
                           frequency, is_averaged, is_summed, FALSE),
                      get_integrated_current(data, start_date, end_date, target,
                                             frequency, is_averaged, is_summed))

IsBeamOn ==
    /\ pc = "ready"
    /\ \E date \in QueryDates, target \in TargetArgs :
           Returns(Call("is_beam_on", date, NoDate, target, "Daily", FALSE, TRUE, FALSE),
                   is_beam_on(data, date, target))

GetNumProtons ==
    /\ pc = "ready"
    /\ \E start_date \in QueryDates, end_date \in EndDates,
          target \in DerivedTargets, frequency \in DerivedFrequencies,
          per_second \in BOOLEAN :
           Returns(Call("get_num_protons", start_date, end_date, target, frequency,
                        FALSE, FALSE, per_second),
                   get_num_protons(data, start_date, end_date, target, frequency,
                                   FALSE, FALSE, per_second))

GetAveragePower ==
    /\ pc = "ready"
    /\ \E start_date \in QueryDates, end_date \in EndDates,
          target \in DerivedTargets, frequency \in DerivedFrequencies :
           Returns(Call("get_average_power", start_date, end_date, target, frequency,
                        FALSE, FALSE, FALSE),
                   get_average_power(data, start_date, end_date, target, frequency,
                                     FALSE, FALSE))

\* The caller consumes the result (prints it, asserts on it) and goes on.
Discard ==
    /\ pc = "returned"
    /\ pc' = "ready"
    /\ call' = NoCall
    /\ result' = NoResult
    /\ UNCHANGED <<data, checked>>

Next ==
    \/ DataIntegrityCheck
    \/ GetSlicedData
    \/ GetIntegratedCurrent
    \/ IsBeamOn
    \/ GetNumProtons
    \/ GetAveragePower
    \/ Discard

Spec == Init /\ [][Next]_vars

-----------------------------------------------------------------------------
(* Properties of data_integrity_check *)

\* The sum of the incremental charge of a channel over rows 1..i.
RECURSIVE RunningSum(_, _, _)
RunningSum(d, target, i) ==
    IF i = 0 THEN 0 ELSE RunningSum(d, target, i - 1) + d[i].inc[target]

DecreasesSomewhere(s) == \E i \in 1..(Len(s) - 1) : s[i + 1] < s[i]
StrictlyIncreasing(s) == \A i \in 1..(Len(s) - 1) : s[i] < s[i + 1]
NoDuplicates(s) == \A i, j \in 1..Len(s) : i # j => s[i] # s[j]

WithinAbsoluteTolerance(d) ==
    \A t \in Targets : \A i \in 1..Len(d) :
        Abs(RunningSum(d, t, i) - d[i].cum[t]) <= ATOL

Accepted == pc = "ready" /\ checked = "ok"
Rejected == pc = "ready" /\ checked # "ok"

\* C2 (as claimed): on every table data_integrity_check accepts, the running
\* sum of each channel's incremental charge differs from the channel's
\* cumulative charge by at most 0.1 at every row.
C2_AcceptedWithinAbsoluteTolerance ==
    Accepted => WithinAbsoluteTolerance(data)

\* C3 (as claimed): on every table data_integrity_check accepts, both the
\* julian_day column and the date column are strictly increasing and hold
\* no duplicates.
C3_AcceptedDatesStrictlyIncreasing ==
    Accepted =>
        /\ StrictlyIncreasing(Column(data, "jd"))
        /\ NoDuplicates(Column(data, "jd"))
        /\ StrictlyIncreasing(Column(data, "Date"))
        /\ NoDuplicates(Column(data, "Date"))

\* C8: data_integrity_check raises on every table whose julian_day or TS-2
\* cumulative column decreases between two consecutive rows; and it accepts
\* every table that is consistent on all three channels, whose julian_day
\* and TS-2 cumulative never decrease and whose julian_day has no duplicate,
\* whatever the Sync and TS-1 cumulative columns do.
C8_ReferenceMonotonicOthersOptedOut ==
    pc = "ready" =>
        /\ (\/ DecreasesSomewhere(Column(data, "jd"))
            \/ DecreasesSomewhere(CumulativeColumn(data, "TS-2")))
              => checked # "ok"
        /\ (/\ WithinAbsoluteTolerance(data)
            /\ ~ DecreasesSomewhere(Column(data, "jd"))
            /\ ~ DecreasesSomewhere(CumulativeColumn(data, "TS-2"))
            /\ NoDuplicates(Column(data, "jd")))
              => checked = "ok"

\* C8's case: an accepted table whose Sync or TS-1 cumulative decreases.
C8_Witness ==
    /\ Accepted
    /\ WithinAbsoluteTolerance(data)
    /\ \/ DecreasesSomewhere(CumulativeColumn(data, "Sync"))
       \/ DecreasesSomewhere(CumulativeColumn(data, "TS-1"))

-----------------------------------------------------------------------------
(* Properties of the queries *)

Returned(op) == pc = "returned" /\ call.op = op

Present(date) == \E i \in 1..Len(data) : data[i].Date = date

\* The position of a date in the table: its first row, counted from 1.
Pos(date) ==
    CHOOSE i \in 1..Len(data) :
        data[i].Date = date /\ \A j \in 1..Len(data) : data[j].Date = date => i <= j

ValidRange(a, b) == Present(a) /\ Present(b) /\ Pos(a) <= Pos(b)

\* The rows at positions Pos(a)..Pos(b), in table order.
SliceRows(a, b) == [k \in 1..(Pos(b) - Pos(a) + 1) |-> data[Pos(a) + k - 1]]

ValidFrequencies == {"Daily", "Weekly", "Monthly"}

\* The call's range is valid: with no end date, the one date is present.
CallRangeValid ==
    IF call.end_date = NoDate THEN Present(call.start_date)
    ELSE ValidRange(call.start_date, call.end_date[1])

InvalidInput ==
    \/ ~ CallRangeValid
    \/ call.target \notin Targets
    \/ call.frequency \notin ValidFrequencies

\* C1 (as claimed): every query given a date that is not in the table, an
\* end date before the start date, an invalid target or an invalid
\* frequency returns None and raises no error.
C1_InvalidInputReturnsNone ==
    (pc = "returned" /\ InvalidInput) => result.kind = "None"

\* C4: get_sliced_data with frequency Daily returns None exactly when the
\* start date or the end date is not in the table or the end date's
\* position precedes the start date's, and otherwise returns exactly the
\* rows at positions Pos(start)..Pos(end), each once and in table order.
C4_DailySliceIsInclusiveRange ==
    (Returned("get_sliced_data") /\ call.frequency = "Daily") =>
        LET a == call.start_date
            b == call.end_date[1]
        IN  /\ result.kind = "None" <=> ~ ValidRange(a, b)
            /\ result.kind # "None" =>
                  /\ result.kind = "frame"
                  /\ result.rows = SliceRows(a, b)

\* C4's case: a Daily slice that starts after the table's first row and
\* holds fewer rows than the table.
C4_Witness ==
    /\ Returned("get_sliced_data")
    /\ call.frequency = "Daily"
    /\ result.kind = "frame"
    /\ Pos(call.start_date) > 1
    /\ Len(result.rows) < Len(data)

\* The sum of the elements of a sequence of numbers, first to last.
RECURSIVE SumOfElements(_)
SumOfElements(xs) ==
    IF Len(xs) = 0 THEN Float(0) ELSE FAdd(xs[1], SumOfElements(Tail(xs)))

RangeCurrentCall ==
    /\ Returned("get_integrated_current")
    /\ call.end_date # NoDate
    /\ ValidRange(call.start_date, call.end_date[1])
    /\ call.target \in Targets
    /\ call.frequency \in ValidFrequencies

\* The sequence the same call returns with is_summed = False.
Unsummed ==
    get_integrated_current(data, call.start_date, call.end_date, call.target,
                           call.frequency, call.is_averaged, FALSE)

BeamCall ==
    /\ Returned("is_beam_on")
    /\ Present(call.start_date)
    /\ call.target \in Targets

ChargeOn(date, target) == data[Pos(date)].inc[target]

\* C6 (as claimed): is_beam_on returns true when the date's incremental
\* charge on the target is nonzero and false when it is zero.
C6_BeamOnIffNonzero ==
    BeamCall => result = Bool(ChargeOn(call.start_date, call.target) # 0)

\* C6 (amended): is_beam_on returns true when the date's incremental charge
\* on the target is greater than zero, and false when it is zero or
\* negative.
C6_BeamOnIffPositive ==
    BeamCall => result = Bool(ChargeOn(call.start_date, call.target) > 0)

\* C6's case: a date with a negative charge, for which is_beam_on is false.
C6_Witness ==
    /\ BeamCall
    /\ ChargeOn(call.start_date, call.target) < 0
    /\ result = Bool(FALSE)

\* The days of the window a bucket's label stands for: Monday..Sunday for a
\* Weekly label (a Sunday), the calendar month for a Monthly label (the
\* month's last day).
Window(frequency, label) ==
    IF frequency = "Weekly" THEN (label - 6)..label
    ELSE {d \in (label - 30)..label : MonthOf(d) = MonthOf(label)}

\* The label of the window that follows a window.
Following(frequency, label) ==
    IF frequency = "Weekly" THEN label + 7 ELSE MonthEnds[MonthOf(label + 1)]

Earliest(rows) ==
    CHOOSE x \in {rows[i].Date : i \in 1..Len(rows)} :
        \A i \in 1..Len(rows) : x <= rows[i].Date

Latest(rows) ==
    CHOOSE x \in {rows[i].Date : i \in 1..Len(rows)} :
        \A i \in 1..Len(rows) : rows[i].Date <= x

\* The rows of a slice whose date falls in a bucket's window.
Contributing(slice, frequency, label) ==
    {i \in 1..Len(slice) : slice[i].Date \in Window(frequency, label)}

ResampledSliceCall ==
    /\ Returned("get_sliced_data")
    /\ call.frequency \in {"Weekly", "Monthly"}
    /\ ValidRange(call.start_date, call.end_date[1])

\* C7 (as claimed): on an accepted table, every bucket get_sliced_data
\* returns for Weekly or Monthly has at least one row of the slice whose
\* date falls in the bucket's window.
C7_NoEmptyBucket ==
    (ResampledSliceCall /\ checked = "ok") =>
        /\ result.kind = "frame"
        /\ \A k \in 1..Len(result.rows) :
              Contributing(SliceRows(call.start_date, call.end_date[1]),
                           call.frequency, result.rows[k].Date) # {}

\* C7 (amended): the buckets are the consecutive windows from the one
\* holding the slice's earliest date through the one holding its latest
\* date, every one of them: the first and the last have a contributing row,
\* and a window between them with no contributing row is emitted too, with
\* charge 0 when the reduction is the sum and NaN when it is the mean.
C7_EveryWindowOfTheSpan ==
    ResampledSliceCall =>
        LET slice == SliceRows(call.start_date, call.end_date[1])
            rows == result.rows
            f == call.frequency
        IN  /\ result.kind = "frame"
            /\ Len(rows) >= 1
            /\ Earliest(slice) \in Window(f, rows[1].Date)
            /\ Latest(slice) \in Window(f, rows[Len(rows)].Date)
            /\ \A k \in 1..(Len(rows) - 1) :
                  rows[k + 1].Date = Following(f, rows[k].Date)
            /\ \A k \in 1..Len(rows) :
                  Contributing(slice, f, rows[k].Date) = {} =>
                      \A t \in Targets :
                          rows[k].inc[t] = IF call.is_averaged THEN NaN ELSE Float(0)

\* C7's case: an accepted table, and a bucket with no contributing row.
C7_Witness ==
    /\ ResampledSliceCall
    /\ checked = "ok"
    /\ result.kind = "frame"
    /\ \E k \in 1..Len(result.rows) :
          Contributing(SliceRows(call.start_date, call.end_date[1]),
                       call.frequency, result.rows[k].Date) = {}

\* The number of elements get_integrated_current returns for the call's
\* range and target at a frequency.
Count(frequency) ==
    Len(get_integrated_current(data, call.start_date, call.end_date, call.target,
                               frequency, call.is_averaged, FALSE).values)

\* C9 (as claimed): on an accepted table, for every valid range, the counts
\* d, w, m of Daily, Weekly and Monthly elements satisfy 6 < d/w < 8 and
\* 3 < w/m < 5.
C9_CountRatios ==
    (RangeCurrentCall /\ ~ call.is_summed /\ call.frequency = "Weekly"
        /\ checked = "ok") =>
        LET d == Count("Daily")
            w == Len(result.values)
            m == Count("Monthly")
        IN  /\ 6 * w < d /\ d < 8 * w
            /\ 3 * m < w /\ w < 5 * m

\* C9 (amended): for every valid range, d is the number of rows from the
\* start date's position through the end date's, w is the number of
\* Monday..Sunday weeks from the week of the slice's earliest date through
\* the week of its latest, and m is the number of calendar months from the
\* month of its earliest date through the month of its latest; so w >= 1,
\* m >= 1 and m <= w + 1, and neither ratio is bounded as claimed.
C9_CountsAreSpans ==
    (RangeCurrentCall /\ ~ call.is_summed) =>
        LET slice == SliceRows(call.start_date, call.end_date[1])
            n == Len(result.values)
        IN  /\ result.kind = "values"
            /\ call.frequency = "Daily" => n = Pos(call.end_date[1]) - Pos(call.start_date) + 1
            /\ call.frequency = "Weekly" =>
                  /\ n = (Latest(slice) \div 7) - (Earliest(slice) \div 7) + 1
                  /\ Count("Monthly") <= n + 1
            /\ call.frequency = "Monthly" =>
                  n = MonthOf(Latest(slice)) - MonthOf(Earliest(slice)) + 1
            /\ n >= 1

\* C9's case: a one-day range on an accepted table, where d = w = m = 1.
C9_Witness ==
    /\ RangeCurrentCall
    /\ ~ call.is_summed
    /\ call.frequency = "Weekly"
    /\ checked = "ok"
    /\ call.start_date = call.end_date[1]
    /\ Len(result.values) = 1
    /\ Count("Daily") = 1
    /\ Count("Monthly") = 1

\* The total of a channel's incremental charge over the rows of a slice.
SliceTotal(slice, target) ==
    RunningSum(slice, target, Len(slice))

\* C10: resampling by sum conserves charge.  For every valid range, every
\* row of the slice falls in the window of exactly one Weekly bucket and of
\* exactly one Monthly bucket, the buckets come in strictly ascending
\* window order, and for every channel the total over the sum-buckets is
\* the total over the Daily slice, which is also what
\* get_integrated_current returns summed at either frequency.
C10_SumConservesCharge ==
    /\ (ResampledSliceCall /\ ~ call.is_averaged) =>
          LET slice == SliceRows(call.start_date, call.end_date[1])
              rows == result.rows
          IN  /\ result.kind = "frame"
              /\ \A k \in 1..(Len(rows) - 1) : rows[k].Date < rows[k + 1].Date
              /\ \A i \in 1..Len(slice) :
                    Cardinality({k \in 1..Len(rows) :
                        slice[i].Date \in Window(call.frequency, rows[k].Date)}) = 1
              /\ \A t \in Targets :
                    SumOfElements([k \in 1..Len(rows) |-> rows[k].inc[t]])
                        = Float(SliceTotal(slice, t))
    /\ (RangeCurrentCall /\ call.is_summed /\ ~ call.is_averaged) =>
          result = Scalar(Float(SliceTotal(SliceRows(call.start_date,
                                                     call.end_date[1]),
                                           call.target)), 0)

\* C10's case: a sum over rows out of date order that fall in two different
\* buckets, with a nonzero total.
C10_Witness ==
    /\ ResampledSliceCall
    /\ ~ call.is_averaged
    /\ result.kind = "frame"
    /\ Len(result.rows) >= 2
    /\ LET slice == SliceRows(call.start_date, call.end_date[1])
       IN  /\ Len(slice) >= 2
           /\ slice[1].Date > slice[2].Date
           /\ SliceTotal(slice, "TS-1") # 0
           /\ Contributing(slice, call.frequency, result.rows[1].Date) # {}
           /\ Contributing(slice, call.frequency,
                           result.rows[Len(result.rows)].Date) # {}

=============================================================================
